---- MODULE Spec2Model ----
(***************************************************************************)
(* Model of OptionsSymbolFinder (src/options-symbol-finder.py): the batch  *)
(* loop of get_option_symbols_for_multiple_symbols and, per symbol, the   *)
(* expiration selection, the chain fetch, the settlement wait, the quote   *)
(* fetch and the strike / contract-symbol selection.                       *)
(*                                                                         *)
(* Prices and strikes are counted in hundredths (631.50 is 63150).  The    *)
(* provider's answers (expiration list, chain, quote) and the exchange     *)
(* clock are inputs drawn from bounded sets when the call is made.         *)
(***************************************************************************)
EXTENDS Integers, Sequences, FiniteSets, TLC

VARIABLES symbols, days_to_expiration, idx, pc, processed, trace,
          expiration_chain, expiration_date, all_chains, now_et, wait_seconds,
          clock, regular_price, underlying_price, target_call_strikes,
          target_put_strikes, option_symbols, all_option_symbols

vars == <<symbols, days_to_expiration, idx, pc, processed, trace,
          expiration_chain, expiration_date, all_chains, now_et, wait_seconds,
          clock, regular_price, underlying_price, target_call_strikes,
          target_put_strikes, option_symbols, all_option_symbols>>

(***************************************************************************)
(* Bounds of the model.                                                    *)
(***************************************************************************)
MaxEntries == 3
MaxDte == 3
MaxStrikeEntries == 2
MaxSymbols == 2

(***************************************************************************)
(* Program constants.                                                      *)
(***************************************************************************)
WeekdayLimit == 5
MarketOpenHour == 9
MarketOpenMinute == 30
SettlementMinute == 31

Min(S) == CHOOSE x \in S : \A y \in S : x <= y
Max(S) == CHOOSE x \in S : \A y \in S : y <= x

(***************************************************************************)
(* Expiration selection.                                                   *)
(***************************************************************************)
None == <<>>

\* the date of the i-th entry of an expiration list, "YYYY-MM-DD" as a triple
DateOf(i) == <<2026, 1, i>>

ExpirationLists ==
    UNION { { [i \in 1..n |-> [expirationDate |-> DateOf(i), daysToExpiration |-> f[i]]]
              : f \in [1..n -> 0..MaxDte] } : n \in 0..MaxEntries }

\* one step of the stable sort: e goes before the first entry with a larger key
RECURSIVE InsertByDays(_, _)
InsertByDays(e, s) ==
    IF s = <<>> THEN <<e>>
    ELSE IF e.daysToExpiration < Head(s).daysToExpiration THEN <<e>> \o s
    ELSE <<Head(s)>> \o InsertByDays(e, Tail(s))

RECURSIVE sorted_chain(_)
sorted_chain(chain) ==
    IF chain = <<>> THEN <<>>
    ELSE InsertByDays(chain[Len(chain)], sorted_chain(SubSeq(chain, 1, Len(chain) - 1)))

MutFindNoSort(chain, days) ==
    IF chain = <<>> THEN None
    ELSE LET ok == {i \in 1..Len(chain) : chain[i].daysToExpiration >= days}
         IN  IF ok # {} THEN chain[Min(ok)].expirationDate
             ELSE chain[Len(chain)].expirationDate

find_expiration_date(chain, days) ==
    IF chain = <<>> THEN None
    ELSE LET sc == sorted_chain(chain)
             ok == {i \in 1..Len(sc) : sc[i].daysToExpiration >= days}
         IN  IF ok # {} THEN sc[Min(ok)].expirationDate
             ELSE sc[Len(sc)].expirationDate

(***************************************************************************)
(* Settlement wait.                                                        *)
(***************************************************************************)
TimeOfDay(h, m, s) == [hour |-> h, minute |-> m, second |-> s]

\* datetime.time comparison: lexicographic on (hour, minute, second)
TimeLess(a, b) ==
    \/ a.hour < b.hour
    \/ a.hour = b.hour /\ a.minute < b.minute
    \/ a.hour = b.hour /\ a.minute = b.minute /\ a.second < b.second

TimeLeq(a, b) == a = b \/ TimeLess(a, b)

SecondsOfDay(t) == t.hour * 3600 + t.minute * 60 + t.second

market_opens == TimeOfDay(MarketOpenHour, MarketOpenMinute, 0)
settlement_time == TimeOfDay(MarketOpenHour, SettlementMinute, 0)

MutWaitNoWeekday(now) ==
    IF TimeLeq(market_opens, now.time) /\ TimeLess(now.time, settlement_time)
    THEN SecondsOfDay(settlement_time) - SecondsOfDay(now.time)
    ELSE 0

\* the seconds _wait_for_market_settlement sleeps when the clock reads now
settlement_wait(now) ==
    IF now.weekday < WeekdayLimit
    THEN IF TimeLeq(market_opens, now.time) /\ TimeLess(now.time, settlement_time)
         THEN LET w == SecondsOfDay(settlement_time) - SecondsOfDay(now.time)
              IN  IF w > 0 THEN w ELSE 0
         ELSE 0
    ELSE 0

\* the clock after time.sleep(w)
Sleep(now, w) ==
    LET t == SecondsOfDay(now.time) + w
    IN  [weekday |-> now.weekday,
         time |-> TimeOfDay(t \div 3600, (t % 3600) \div 60, t % 60)]

Nows ==
    { [weekday |-> d, time |-> TimeOfDay(h, m, s)]
      : d \in 0..6, h \in {0, 9, 10}, m \in {29, 30, 31}, s \in 0..59 }

(***************************************************************************)
(* The option chain as the provider returns it.                            *)
(***************************************************************************)
Other(side) == IF side = "CALL" THEN "PUT" ELSE "CALL"

\* a strike key is a decimal string: its integer part and its fraction digits
StrikeKeys ==
    { [int |-> 2, frac |-> <<0>>], [int |-> 2, frac |-> <<0, 0>>],
      [int |-> 3, frac |-> <<0>>] }

\* the putCall fields of the entries listed under one strike
OptionShapes(side) == { <<side>>, <<side, side>>, <<Other(side), side>> }

StrikeRows(side) == [strike : StrikeKeys, shape : OptionShapes(side)]

\* the strike maps of one expiration key: n distinct strike keys, in some order
StrikeMaps(n, side) ==
    { m \in [1..n -> StrikeRows(side)] :
        \A i, j \in 1..n : i # j => m[i].strike # m[j].strike }

\* expiration keys, each with a non-empty strike map, budget strike entries in all
RECURSIVE Layouts(_, _)
Layouts(budget, side) ==
    {<<>>} \cup
    UNION { { <<m>> \o rest : rest \in Layouts(budget - Len(m), side) }
            : m \in UNION { StrikeMaps(n, side) : n \in 1..budget } }

\* callExpDateMap / putExpDateMap: every listed entry has a contract symbol of its own
ExpDateMap(layout, side) ==
    [e \in 1..Len(layout) |->
        [exp_key |-> e,
         strikes |->
            [k \in 1..Len(layout[e]) |->
                [strike |-> layout[e][k].strike,
                 options |->
                    [o \in 1..Len(layout[e][k].shape) |->
                        [putCall |-> layout[e][k].shape[o],
                         symbol |-> [side |-> side, exp |-> e, row |-> k, n |-> o]]]]]]]

Present(m) == [has |-> TRUE, items |-> m]
Missing == [has |-> FALSE, items |-> <<>>]

Absent == [kind |-> "absent", val |-> 0]
Null == [kind |-> "null", val |-> 0]
Num(v) == [kind |-> "num", val |-> v]

\* get_all_option_chains returns {} when the request fails
FailedChains ==
    [callExpDateMap |-> Missing, putExpDateMap |-> Missing, underlyingPrice |-> Absent]

EmbeddedPrices == { Absent, Null, Num(0), Num(-150), Num(150) }

RichMaps(budget, side) == { ExpDateMap(l, side) : l \in Layouts(budget, side) }

PlainMaps(side) ==
    { <<>>, ExpDateMap(<< <<[strike |-> [int |-> 3, frac |-> <<0>>], shape |-> <<side>>]>> >>, side) }

\* one side with up to budget strike entries, the other side plain
Chains(budget) ==
    {FailedChains} \cup
    { [callExpDateMap |-> Present(c), putExpDateMap |-> Present(p), underlyingPrice |-> u]
      : c \in RichMaps(budget, "CALL"), p \in PlainMaps("PUT"), u \in EmbeddedPrices } \cup
    { [callExpDateMap |-> Present(c), putExpDateMap |-> Present(p), underlyingPrice |-> u]
      : c \in PlainMaps("CALL"), p \in RichMaps(budget, "PUT"), u \in EmbeddedPrices }

(***************************************************************************)
(* The quote and the regular-hours price.                                  *)
(***************************************************************************)
NoQuote == [ok |-> FALSE, lastPrice |-> 0]
Quote(v) == [ok |-> TRUE, lastPrice |-> v]

Quotes ==
    { NoQuote, Quote(-100), Quote(0), Quote(150), Quote(200), Quote(350),
      Quote(63000), Quote(63150) }

\* lines 160-178: lastPrice when it is there and positive, 0 on any failure
get_regular_hours_price(q) == IF q.ok /\ q.lastPrice > 0 THEN q.lastPrice ELSE 0

(***************************************************************************)
(* Strike selection.                                                       *)
(***************************************************************************)
\* float(strike), in hundredths
Float(key) ==
    key.int * 100 +
    (IF Len(key.frac) = 0 THEN 0
     ELSE IF Len(key.frac) = 1 THEN key.frac[1] * 10
     ELSE key.frac[1] * 10 + key.frac[2])

\* int(x) of a price in hundredths: truncation toward zero
IntOf(x) == IF x >= 0 THEN x \div 100 ELSE -((-x) \div 100)

RECURSIVE Flatten(_)
Flatten(ss) == IF ss = <<>> THEN <<>> ELSE Head(ss) \o Flatten(Tail(ss))

RECURSIVE InsertNum(_, _)
InsertNum(x, s) ==
    IF s = <<>> THEN <<x>>
    ELSE IF x < Head(s) THEN <<x>> \o s
    ELSE <<Head(s)>> \o InsertNum(x, Tail(s))

RECURSIVE SortNum(_)
SortNum(s) == IF s = <<>> THEN <<>> ELSE InsertNum(Head(s), SortNum(Tail(s)))

\* lines 275-301: float(strike) of every strike key of the side, sorted
side_strikes(m) ==
    IF ~m.has THEN <<>>
    ELSE SortNum(Flatten([e \in 1..Len(m.items) |->
            [k \in 1..Len(m.items[e].strikes) |-> Float(m.items[e].strikes[k].strike)]]))

round_down_strike(price) == IntOf(price)
round_up_strike(price) == round_down_strike(price) + 1

TargetCallStrikes(price) == <<round_down_strike(price), round_down_strike(price) - 1>>

MutTargetPutsCeil(price) ==
    LET c == IF price % 100 = 0 THEN IntOf(price) ELSE IntOf(price) + 1
    IN  <<c, c + 1>>

TargetPutStrikes(price) == <<round_up_strike(price), round_up_strike(price) + 1>>

\* strike in call_strikes: an int target against the floats of the chain
InStrikes(t, strikes) == \E i \in 1..Len(strikes) : strikes[i] = t * 100

MutSelectNearest(targets, strikes) ==
    IF strikes = <<>> THEN <<>>
    ELSE [i \in 1..Len(targets) |->
            IF InStrikes(targets[i], strikes) THEN targets[i] ELSE IntOf(strikes[1])]

\* lines 322-323: the targets that exist in the chain, in target order
selected_strikes(targets, strikes) ==
    SelectSeq(targets, LAMBDA t : InStrikes(t, strikes))

\* the first entry of options whose putCall is side, if any
FirstOption(options, side) ==
    LET hit == {o \in 1..Len(options) : options[o].putCall = side}
    IN  IF hit = {} THEN <<>> ELSE <<options[Min(hit)].symbol>>

InSelected(strike_price, selected) ==
    \E i \in 1..Len(selected) : strike_price = selected[i] * 100

MutSymbolsTargetOrder(m, selected, side) ==
    IF ~m.has THEN <<>>
    ELSE Flatten([i \in 1..Len(selected) |->
            Flatten(Flatten([e \in 1..Len(m.items) |->
                [k \in 1..Len(m.items[e].strikes) |->
                    IF Float(m.items[e].strikes[k].strike) = selected[i] * 100
                    THEN FirstOption(m.items[e].strikes[k].options, side)
                    ELSE <<>>]]))])

\* lines 336-356: one pass over the chain, in the chain's order
side_symbols(m, selected, side) ==
    IF ~m.has THEN <<>>
    ELSE Flatten(Flatten([e \in 1..Len(m.items) |->
            [k \in 1..Len(m.items[e].strikes) |->
                IF InSelected(Float(m.items[e].strikes[k].strike), selected)
                THEN FirstOption(m.items[e].strikes[k].options, side)
                ELSE <<>>]]))

NoStrikes == [calls |-> <<>>, puts |-> <<>>]

\* line 362: the answer on an exception, without a 'strikes' entry
ErrorSymbols ==
    [calls |-> <<>>, puts |-> <<>>, has_strikes |-> FALSE, strikes |-> NoStrikes]

\* lines 262-267: the regular-hours price, or all_chains.get('underlyingPrice', 0)
fallback_price(regular, chains) ==
    IF regular <= 0
    THEN IF chains.underlyingPrice.kind = "num" THEN chains.underlyingPrice.val ELSE 0
    ELSE regular

\* line 267 formats the fallback price: a null underlyingPrice raises TypeError
FormatRaises(regular, chains) ==
    regular <= 0 /\ chains.underlyingPrice.kind = "null"

\* lines 271-358
select_option_symbols(chains, price) ==
    LET call_strikes == side_strikes(chains.callExpDateMap)
        put_strikes == side_strikes(chains.putExpDateMap)
        selected_call_strikes == selected_strikes(TargetCallStrikes(price), call_strikes)
        selected_put_strikes == selected_strikes(TargetPutStrikes(price), put_strikes)
    IN  [calls |-> side_symbols(chains.callExpDateMap, selected_call_strikes, "CALL"),
         puts |-> side_symbols(chains.putExpDateMap, selected_put_strikes, "PUT"),
         has_strikes |-> TRUE,
         strikes |-> [calls |-> selected_call_strikes, puts |-> selected_put_strikes]]

(***************************************************************************)
(* The inputs of the batch specification: a few answers of each kind.      *)
(***************************************************************************)
Tickers == {"SPY", "QQQ"}

SymbolLists == UNION { [1..n -> Tickers] : n \in 0..MaxSymbols }

BatchExpirations == { c \in ExpirationLists : Len(c) <= 1 }

BatchChains ==
    {FailedChains} \cup
    { [callExpDateMap |-> Present(c), putExpDateMap |-> Present(p), underlyingPrice |-> u]
      : c \in PlainMaps("CALL"), p \in PlainMaps("PUT"), u \in {Null, Num(150)} }

BatchNows ==
    { [weekday |-> d, time |-> TimeOfDay(MarketOpenHour, m, 15)]
      : d \in {0, 5}, m \in {MarketOpenMinute, SettlementMinute} }

BatchQuotes == { NoQuote, Quote(350) }

\* one answer of each kind, where a specification varies another input
FixedExpirations == { <<[expirationDate |-> DateOf(1), daysToExpiration |-> 2]>> }

FixedChains ==
    { [callExpDateMap |-> Present(c), putExpDateMap |-> Present(p),
       underlyingPrice |-> Num(150)]
      : c \in PlainMaps("CALL") \ {<<>>}, p \in PlainMaps("PUT") \ {<<>>} }

FixedNows == { [weekday |-> 0, time |-> TimeOfDay(MarketOpenHour, MarketOpenMinute, 15)] }

FixedQuotes == { Quote(350) }

(***************************************************************************)
(* The state machine.                                                      *)
(***************************************************************************)
Midnight == [weekday |-> 0, time |-> TimeOfDay(0, 0, 0)]

LocalsInit ==
    /\ trace = <<>>
    /\ expiration_chain = <<>>
    /\ expiration_date = None
    /\ all_chains = FailedChains
    /\ now_et = Midnight
    /\ wait_seconds = 0
    /\ clock = Midnight
    /\ regular_price = 0
    /\ underlying_price = 0
    /\ target_call_strikes = <<>>
    /\ target_put_strikes = <<>>
    /\ option_symbols = ErrorSymbols

InitWith(lists, days) ==
    /\ symbols \in lists
    /\ days_to_expiration \in days
    /\ idx = 1
    /\ pc = "loop"
    /\ processed = <<>>
    /\ all_option_symbols = <<>>
    /\ LocalsInit

\* line 377-379: the loop takes the next symbol; the locals of the last one are gone
ProcessSymbol ==
    /\ pc = "loop"
    /\ idx <= Len(symbols)
    /\ pc' = "find"
    /\ processed' = Append(processed, symbols[idx])
    /\ trace' = <<>>
    /\ expiration_chain' = <<>>
    /\ expiration_date' = None
    /\ all_chains' = FailedChains
    /\ now_et' = Midnight
    /\ wait_seconds' = 0
    /\ clock' = Midnight
    /\ regular_price' = 0
    /\ underlying_price' = 0
    /\ target_call_strikes' = <<>>
    /\ target_put_strikes' = <<>>
    /\ option_symbols' = ErrorSymbols
    /\ UNCHANGED <<symbols, days_to_expiration, idx, all_option_symbols>>

\* line 403
Return ==
    /\ pc = "loop"
    /\ idx > Len(symbols)
    /\ pc' = "done"
    /\ UNCHANGED <<symbols, days_to_expiration, idx, processed, trace,
                   expiration_chain, expiration_date, all_chains, now_et,
                   wait_seconds, clock, regular_price, underlying_price,
                   target_call_strikes, target_put_strikes, option_symbols,
                   all_option_symbols>>

MutFindAborts(answers) ==
    /\ pc = "find"
    /\ \E chain \in answers :
        /\ expiration_chain' = chain
        /\ expiration_date' = find_expiration_date(chain, days_to_expiration)
    /\ trace' = Append(trace, "selectExpiration")
    /\ IF expiration_date' = None
       THEN pc' = "done" /\ UNCHANGED idx
       ELSE pc' = "chains" /\ UNCHANGED idx
    /\ UNCHANGED <<symbols, days_to_expiration, processed, all_chains, now_et,
                   wait_seconds, clock, regular_price, underlying_price,
                   target_call_strikes, target_put_strikes, option_symbols,
                   all_option_symbols>>

\* lines 382-385 with find_expiration_date (51-80): no date, next symbol
FindExpirationDate(answers) ==
    /\ pc = "find"
    /\ \E chain \in answers :
        /\ expiration_chain' = chain
        /\ expiration_date' = find_expiration_date(chain, days_to_expiration)
    /\ trace' = Append(trace, "selectExpiration")
    /\ IF expiration_date' = None
       THEN pc' = "loop" /\ idx' = idx + 1
       ELSE pc' = "chains" /\ UNCHANGED idx
    /\ UNCHANGED <<symbols, days_to_expiration, processed, all_chains, now_et,
                   wait_seconds, clock, regular_price, underlying_price,
                   target_call_strikes, target_put_strikes, option_symbols,
                   all_option_symbols>>

MutChainsThenQuote(answers) ==
    /\ pc = "chains"
    /\ \E c \in answers : all_chains' = c
    /\ trace' = Append(trace, "fetchChain")
    /\ pc' = "quote"
    /\ UNCHANGED <<symbols, days_to_expiration, idx, processed, expiration_chain,
                   expiration_date, now_et, wait_seconds, clock, regular_price,
                   underlying_price, target_call_strikes, target_put_strikes,
                   option_symbols, all_option_symbols>>

\* line 250 with get_all_option_chains (82-123)
GetAllOptionChains(answers) ==
    /\ pc = "chains"
    /\ \E c \in answers : all_chains' = c
    /\ trace' = Append(trace, "fetchChain")
    /\ pc' = "settle"
    /\ UNCHANGED <<symbols, days_to_expiration, idx, processed, expiration_chain,
                   expiration_date, now_et, wait_seconds, clock, regular_price,
                   underlying_price, target_call_strikes, target_put_strikes,
                   option_symbols, all_option_symbols>>

\* line 139 with _wait_for_market_settlement (180-218): read the clock, sleep
WaitForMarketSettlement(times) ==
    /\ pc = "settle"
    /\ \E n \in times :
        /\ now_et' = n
        /\ wait_seconds' = settlement_wait(n)
        /\ clock' = Sleep(n, settlement_wait(n))
    /\ trace' = Append(trace, "settlementDelay")
    /\ pc' = "quote"
    /\ UNCHANGED <<symbols, days_to_expiration, idx, processed, expiration_chain,
                   expiration_date, all_chains, regular_price, underlying_price,
                   target_call_strikes, target_put_strikes, option_symbols,
                   all_option_symbols>>

\* lines 141-178: the quote request and its answer
GetRegularHoursPrice(answers) ==
    /\ pc = "quote"
    /\ \E q \in answers : regular_price' = get_regular_hours_price(q)
    /\ trace' = Append(trace, "fetchPrice")
    /\ pc' = "select"
    /\ UNCHANGED <<symbols, days_to_expiration, idx, processed, expiration_chain,
                   expiration_date, all_chains, now_et, wait_seconds, clock,
                   underlying_price, target_call_strikes, target_put_strikes,
                   option_symbols, all_option_symbols>>

\* lines 264-362
GetOptionSymbols ==
    /\ pc = "select"
    /\ underlying_price' = fallback_price(regular_price, all_chains)
    /\ IF FormatRaises(regular_price, all_chains)
       THEN /\ option_symbols' = ErrorSymbols
            /\ UNCHANGED <<target_call_strikes, target_put_strikes>>
       ELSE /\ target_call_strikes' = TargetCallStrikes(underlying_price')
            /\ target_put_strikes' = TargetPutStrikes(underlying_price')
            /\ option_symbols' = select_option_symbols(all_chains, underlying_price')
    /\ trace' = Append(trace, "selectStrikes")
    /\ pc' = "collect"
    /\ UNCHANGED <<symbols, days_to_expiration, idx, processed, expiration_chain,
                   expiration_date, all_chains, now_et, wait_seconds, clock,
                   regular_price, all_option_symbols>>

\* lines 392-397: a symbol with no contract is left out of the result
CollectResult ==
    /\ pc = "collect"
    /\ IF option_symbols.calls = <<>> /\ option_symbols.puts = <<>>
       THEN UNCHANGED all_option_symbols
       ELSE all_option_symbols' =
                [t \in DOMAIN all_option_symbols \cup {symbols[idx]} |->
                    IF t = symbols[idx] THEN option_symbols ELSE all_option_symbols[t]]
    /\ idx' = idx + 1
    /\ pc' = "loop"
    /\ UNCHANGED <<symbols, days_to_expiration, processed, trace, expiration_chain,
                   expiration_date, all_chains, now_et, wait_seconds, clock,
                   regular_price, underlying_price, target_call_strikes,
                   target_put_strikes, option_symbols>>

\* the batch: several symbols, a few answers of each kind
Init == InitWith(SymbolLists, {2})

Next ==
    \/ ProcessSymbol
    \/ FindExpirationDate(BatchExpirations)
    \/ GetAllOptionChains(BatchChains)
    \/ WaitForMarketSettlement(BatchNows)
    \/ GetRegularHoursPrice(BatchQuotes)
    \/ GetOptionSymbols
    \/ CollectResult
    \/ Return

Spec == Init /\ [][Next]_vars

\* the loop body always runs on: nothing in it waits on another process
FairSpec == Spec /\ WF_vars(Next)

\* one symbol, every expiration list and every minimum
InitExpiration == InitWith({<<"SPY">>}, 0..(MaxDte + 1))

NextExpiration ==
    \/ ProcessSymbol
    \/ FindExpirationDate(ExpirationLists)
    \/ GetAllOptionChains(FixedChains)
    \/ WaitForMarketSettlement(FixedNows)
    \/ GetRegularHoursPrice(FixedQuotes)
    \/ GetOptionSymbols
    \/ CollectResult
    \/ Return

SpecExpiration == InitExpiration /\ [][NextExpiration]_vars

\* one symbol, every reading of the exchange clock
InitGate == InitWith({<<"SPY">>}, {2})

NextGate ==
    \/ ProcessSymbol
    \/ FindExpirationDate(FixedExpirations)
    \/ GetAllOptionChains(FixedChains)
    \/ WaitForMarketSettlement(Nows)
    \/ GetRegularHoursPrice(FixedQuotes)
    \/ GetOptionSymbols
    \/ CollectResult
    \/ Return

SpecGate == InitGate /\ [][NextGate]_vars

\* one symbol, every chain and every quote
InitStrikes == InitWith({<<"SPY">>}, {2})

NextStrikes ==
    \/ ProcessSymbol
    \/ FindExpirationDate(FixedExpirations)
    \/ GetAllOptionChains(Chains(MaxStrikeEntries))
    \/ WaitForMarketSettlement(FixedNows)
    \/ GetRegularHoursPrice(Quotes)
    \/ GetOptionSymbols
    \/ CollectResult
    \/ Return

SpecStrikes == InitStrikes /\ [][NextStrikes]_vars

(***************************************************************************)
(* Properties.                                                             *)
(***************************************************************************)
SeqRange(s) == { s[i] : i \in 1..Len(s) }

Done(step) == step \in SeqRange(trace)

DaysPresent == { expiration_chain[i].daysToExpiration : i \in 1..Len(expiration_chain) }

DaysQualifying == { d \in DaysPresent : d >= days_to_expiration }

\* C1: find_expiration_date returns None for an empty expiration list, and
\* otherwise the expirationDate of an entry whose daysToExpiration is the
\* smallest value >= the minimum present in the list, or the largest value
\* present when none reaches the minimum.
C1_ExpirationSelected ==
    Done("selectExpiration") =>
        IF expiration_chain = <<>> THEN expiration_date = None
        ELSE \E i \in 1..Len(expiration_chain) :
                /\ expiration_chain[i].expirationDate = expiration_date
                /\ expiration_chain[i].daysToExpiration =
                       IF DaysQualifying # {} THEN Min(DaysQualifying)
                       ELSE Max(DaysPresent)

\* an unsorted list of three with a qualifying entry that is not the first listed
C1_Witness ==
    /\ Done("selectExpiration")
    /\ Len(expiration_chain) = 3
    /\ expiration_chain[1].daysToExpiration > expiration_chain[3].daysToExpiration
    /\ expiration_chain[3].daysToExpiration >= days_to_expiration
    /\ expiration_chain[2].daysToExpiration < days_to_expiration
    /\ expiration_date = expiration_chain[3].expirationDate

StrikesListed(m) ==
    UNION { { Float(m.items[e].strikes[k].strike) : k \in 1..Len(m.items[e].strikes) }
            : e \in 1..Len(m.items) }

NoStrikeLeftOut(selected, targets, m) ==
    /\ Len(selected) <= 2
    /\ \A i, j \in 1..Len(selected) : i # j => selected[i] # selected[j]
    /\ \A i \in 1..Len(selected) :
          /\ selected[i] * 100 \in StrikesListed(m)
          /\ selected[i] \in SeqRange(targets)
    /\ option_symbols.has_strikes =>
          \A j \in 1..Len(targets) :
              (targets[j] * 100 \in StrikesListed(m)) <=> (targets[j] \in SeqRange(selected))

\* C3: on each side the selected strikes are at most two strikes listed on
\* that side of the chain, each one of the side's two targets; a target the
\* chain does not list is left out and nothing takes its place.
C3_SelectedFromChain ==
    pc = "collect" =>
        /\ NoStrikeLeftOut(option_symbols.strikes.calls, target_call_strikes,
                           all_chains.callExpDateMap)
        /\ NoStrikeLeftOut(option_symbols.strikes.puts, target_put_strikes,
                           all_chains.putExpDateMap)

\* price 3.50, the chain lists call strike 2 and not 3: only 2 is selected
C3_Witness ==
    /\ pc = "collect"
    /\ target_call_strikes = <<3, 2>>
    /\ StrikesListed(all_chains.callExpDateMap) = {200}
    /\ option_symbols.strikes.calls = <<2>>

\* the strike, in hundredths, of the chain entry a contract symbol belongs to
StrikeOfSymbol(sym) ==
    LET m == IF sym.side = "CALL" THEN all_chains.callExpDateMap
             ELSE all_chains.putExpDateMap
    IN  Float(m.items[sym.exp].strikes[sym.row].strike)

TargetIndex(sym, targets) ==
    Min({ i \in 1..Len(targets) : targets[i] * 100 = StrikeOfSymbol(sym) })

InTargetOrder(syms, targets) ==
    \A i, j \in 1..Len(syms) :
        i < j => TargetIndex(syms[i], targets) <= TargetIndex(syms[j], targets)

\* C4 as stated: the contract symbols of each side come in the order of the
\* target list of their strikes, whatever order the chain lists the strikes in.
C4_SymbolsInTargetOrder ==
    pc = "collect" =>
        /\ InTargetOrder(option_symbols.calls, target_call_strikes)
        /\ InTargetOrder(option_symbols.puts, target_put_strikes)

InChainOrder(syms) ==
    \A i, j \in 1..Len(syms) :
        i < j => \/ syms[i].exp < syms[j].exp
                 \/ syms[i].exp = syms[j].exp /\ syms[i].row < syms[j].row

\* C4 amended: the contract symbols of each side come in the order the chain
\* lists their strikes (expiration key by expiration key, strike key by strike
\* key), not in target order.
C4_SymbolsInChainOrder ==
    pc = "collect" =>
        /\ InChainOrder(option_symbols.calls)
        /\ InChainOrder(option_symbols.puts)

\* both call targets selected, the chain lists the lower one first, and so does the result
C4_Witness ==
    /\ pc = "collect"
    /\ option_symbols.strikes.calls = <<3, 2>>
    /\ Len(option_symbols.calls) = 2
    /\ StrikeOfSymbol(option_symbols.calls[1]) = 200
    /\ StrikeOfSymbol(option_symbols.calls[2]) = 300

EmbeddedPositive ==
    all_chains.underlyingPrice.kind = "num" /\ all_chains.underlyingPrice.val > 0

NothingSelected ==
    /\ option_symbols.strikes.calls = <<>>
    /\ option_symbols.strikes.puts = <<>>
    /\ option_symbols.calls = <<>>
    /\ option_symbols.puts = <<>>

\* C5: with no positive regular-hours price and no positive embedded
\* underlying price, no strike and no contract symbol is selected, whatever
\* the chain lists.
C5_NoPriceNoSelection ==
    (pc = "collect" /\ regular_price <= 0 /\ ~EmbeddedPositive) => NothingSelected

AnchoredOn(price) ==
    /\ underlying_price = price
    /\ target_call_strikes = <<IntOf(price), IntOf(price) - 1>>
    /\ target_put_strikes = <<IntOf(price) + 1, IntOf(price) + 2>>

\* C6: the targets are anchored on the regular-hours price whenever it is
\* positive; on the embedded underlying price only when the regular-hours
\* price is not positive and the embedded one is; and on nothing otherwise.
C6_AnchorPrice ==
    pc = "collect" =>
        /\ regular_price > 0 => AnchoredOn(regular_price)
        /\ (regular_price <= 0 /\ EmbeddedPositive) =>
              AnchoredOn(all_chains.underlyingPrice.val)
        /\ (regular_price <= 0 /\ ~EmbeddedPositive) =>
              (target_call_strikes = <<>> /\ target_put_strikes = <<>>)

\* the first entry of the side's chain that is listed under strike s for that side
FirstListed(m, s, side) ==
    LET at == UNION { { <<e, k>> : k \in
                          { r \in 1..Len(m.items[e].strikes) :
                              /\ Float(m.items[e].strikes[r].strike) = s * 100
                              /\ FirstOption(m.items[e].strikes[r].options, side) # <<>> } }
                      : e \in 1..Len(m.items) }
        first == CHOOSE p \in at :
                    \A q \in at : p[1] < q[1] \/ (p[1] = q[1] /\ p[2] <= q[2])
    IN  FirstOption(m.items[first[1]].strikes[first[2]].options, side)

OneSymbolPerStrike(syms, selected, m, side) ==
    /\ Len(syms) = Len(selected)
    /\ Len(syms) <= 2
    /\ \A i \in 1..Len(selected) :
          \E j \in 1..Len(syms) : <<syms[j]>> = FirstListed(m, selected[i], side)

\* C10: each side returns exactly one contract symbol per selected strike,
\* the first entry listed for that strike on that side, so never more than
\* two, also when the chain lists a strike more than once.
C10_OneSymbolPerStrike ==
    pc = "collect" =>
        /\ OneSymbolPerStrike(option_symbols.calls, option_symbols.strikes.calls,
                              all_chains.callExpDateMap, "CALL")
        /\ OneSymbolPerStrike(option_symbols.puts, option_symbols.strikes.puts,
                              all_chains.putExpDateMap, "PUT")

\* C8: whatever fails for a symbol, the batch takes every symbol of the list
\* in order and returns.
C8_BatchCompletes == <>(pc = "done" /\ processed = symbols)

\* the first symbol gave nothing, the second one is in the result
C8_Witness ==
    /\ pc = "done"
    /\ Len(symbols) = 2
    /\ symbols[1] # symbols[2]
    /\ DOMAIN all_option_symbols = {symbols[2]}

StepOrder ==
    <<"selectExpiration", "fetchChain", "settlementDelay", "fetchPrice", "selectStrikes">>

InSettlementWindow(now) ==
    /\ now.weekday \in 0..4
    /\ 34200 <= SecondsOfDay(now.time)
    /\ SecondsOfDay(now.time) < 34260

\* C9: per symbol the steps are expiration selection, chain fetch, settlement
\* wait, quote fetch, strike selection, in that order; the quote is requested
\* only once the wait is over, and no chain is fetched without an expiration.
C9_StepOrder ==
    /\ Len(trace) <= Len(StepOrder)
    /\ trace = SubSeq(StepOrder, 1, Len(trace))
    /\ Done("fetchChain") => expiration_date # None
    /\ Done("fetchPrice") =>
          /\ SecondsOfDay(clock.time) = SecondsOfDay(now_et.time) + wait_seconds
          /\ ~InSettlementWindow(clock)

\* a symbol taken through all five steps with a wait inside the window
C9_Witness ==
    /\ pc = "collect"
    /\ trace = StepOrder
    /\ wait_seconds = 45

====
